---- MODULE Spec2Model ----
(***************************************************************************)
(* Model of the two evaluation runners of the repository:                  *)
(*   - src/mumbai_llm_test.js : batch mode (runTests, scoreAnswer,         *)
(*     isModelAvailable)                                                   *)
(*   - src/askOllama.js       : single-model mode (processQuestions,       *)
(*     initResultsFile, checkOllama)                                       *)
(* Strings are sequences of one-character strings, so that length,         *)
(* includes, split, startsWith and toLowerCase are computed on characters. *)
(***************************************************************************)
EXTENDS Integers, Sequences, FiniteSets, TLC

(***************************************************************************)
(* Bounds of the model.                                                    *)
(***************************************************************************)
\* number of entries of questions.json
NumQuestions == 2
\* number of configured models (a prefix of the MODELS array)
NumModels == 2
\* number of entries already in results.json before a single-model run
MaxPrior == 1

(***************************************************************************)
(* String helpers (JavaScript String methods on character sequences).      *)
(***************************************************************************)
UpperChars == <<"A","B","C","D","E","F","G","H","I","J","K","L","M",
                "N","O","P","Q","R","S","T","U","V","W","X","Y","Z">>
LowerChars == <<"a","b","c","d","e","f","g","h","i","j","k","l","m",
                "n","o","p","q","r","s","t","u","v","w","x","y","z">>

\* String.prototype.toLowerCase, one character
toLowerChar(c) ==
    IF \E i \in 1..26 : UpperChars[i] = c
    THEN LowerChars[CHOOSE i \in 1..26 : UpperChars[i] = c]
    ELSE c

\* String.prototype.toLowerCase
toLowerCase(s) == [i \in 1..Len(s) |-> toLowerChar(s[i])]

\* String.prototype.includes
includes(s, pat) ==
    \E i \in 0..(Len(s) - Len(pat)) : SubSeq(s, i + 1, i + Len(pat)) = pat

\* String.prototype.startsWith
startsWith(s, pre) ==
    /\ Len(pre) <= Len(s)
    /\ SubSeq(s, 1, Len(pre)) = pre

\* String.prototype.split with a one-character separator: the pieces between
\* consecutive separators, empty pieces included
split(s, sep) ==
    LET idx == SelectSeq([i \in 1..Len(s) |-> i], LAMBDA i : s[i] = sep)
        n   == Len(idx)
    IN  [k \in 1..(n + 1) |->
            SubSeq(s, (IF k = 1 THEN 1 ELSE idx[k - 1] + 1),
                      (IF k = n + 1 THEN Len(s) ELSE idx[k] - 1))]

Max(a, b) == IF a >= b THEN a ELSE b
Min(a, b) == IF a <= b THEN a ELSE b

(***************************************************************************)
(* Literals of scoreAnswer.                                                *)
(***************************************************************************)
StrSorry == <<"s","o","r","r","y">>
StrNotSure == <<"n","o","t"," ","s","u","r","e">>
StrVadaPav == <<"v","a","d","a"," ","p","a","v">>
StrFinancialCapital ==
    <<"f","i","n","a","n","c","i","a","l"," ","c","a","p","i","t","a","l">>

(***************************************************************************)
(* scoreAnswer (src/mumbai_llm_test.js:24-34)                              *)
(***************************************************************************)
\* a variant that starts from 0 and returns the score unclamped
scoreAnswerUnclamped(answer, questionId) ==
    LET length == Len(answer)
        s1 == 0
        s2 == IF length < 50 THEN s1 - 20 ELSE s1
        s3 == IF length > 500 THEN s2 + 10 ELSE s2
        s4 == IF includes(answer, StrSorry) \/ includes(answer, StrNotSure)
              THEN s3 - 15 ELSE s3
        s5 == IF Len(split(answer, " ")) > 100 THEN s4 + 5 ELSE s4
        s6 == IF questionId = 1 /\ includes(toLowerCase(answer), StrVadaPav)
              THEN s5 + 20 ELSE s5
        s7 == IF questionId = 12
                 /\ includes(toLowerCase(answer), StrFinancialCapital)
              THEN s6 + 15 ELSE s6
    IN  s7

\* a variant whose length bonus uses >= 500 and whose apology test is
\* case-insensitive
scoreAnswerLoose(answer, questionId) ==
    LET length == Len(answer)
        s1 == 50
        s2 == IF length < 50 THEN s1 - 20 ELSE s1
        s3 == IF length >= 500 THEN s2 + 10 ELSE s2
        s4 == IF includes(toLowerCase(answer), StrSorry)
                 \/ includes(toLowerCase(answer), StrNotSure)
              THEN s3 - 15 ELSE s3
        s5 == IF Len(split(answer, " ")) > 100 THEN s4 + 5 ELSE s4
        s6 == IF questionId = 1 /\ includes(toLowerCase(answer), StrVadaPav)
              THEN s5 + 20 ELSE s5
        s7 == IF questionId = 12
                 /\ includes(toLowerCase(answer), StrFinancialCapital)
              THEN s6 + 15 ELSE s6
    IN  Max(0, Min(100, s7))

scoreAnswer(answer, questionId) ==
    LET length == Len(answer)
        s1 == 50
        s2 == IF length < 50 THEN s1 - 20 ELSE s1
        s3 == IF length > 500 THEN s2 + 10 ELSE s2
        s4 == IF includes(answer, StrSorry) \/ includes(answer, StrNotSure)
              THEN s3 - 15 ELSE s3
        s5 == IF Len(split(answer, " ")) > 100 THEN s4 + 5 ELSE s4
        s6 == IF questionId = 1 /\ includes(toLowerCase(answer), StrVadaPav)
              THEN s5 + 20 ELSE s5
        s7 == IF questionId = 12
                 /\ includes(toLowerCase(answer), StrFinancialCapital)
              THEN s6 + 15 ELSE s6
    IN  Max(0, Min(100, s7))

(***************************************************************************)
(* Answers fed to the scorer: a core phrase padded with a repeated unit    *)
(* up to a total length.                                                   *)
(***************************************************************************)
StrSorryCap == <<"S","o","r","r","y">>
StrVadaPavCap == <<"V","a","d","a"," ","P","a","v">>
\* "I am not sure, sorry about that."
StrApology ==
    <<"I"," ","a","m"," ","n","o","t"," ","s","u","r","e",","," ",
      "s","o","r","r","y"," ","a","b","o","u","t"," ","t","h","a","t",".">>
\* "vada pav is a famous mumbai snack"
StrSnack ==
    <<"v","a","d","a"," ","p","a","v"," ","i","s"," ","a"," ",
      "f","a","m","o","u","s"," ","m","u","m","b","a","i"," ",
      "s","n","a","c","k">>

Cores ==
    { <<>>, StrSorry, StrSorryCap, StrNotSure, StrVadaPav, StrVadaPavCap,
      StrFinancialCapital, StrApology, StrSnack }

Units == { <<"x">>, <<" ">>, <<"x"," ">>, <<"x","\t">>, <<"x"," "," ">> }

Totals == { 0, 49, 50, 199, 201, 500, 501, 600 }

PadTo(core, unit, total) ==
    IF total <= Len(core) THEN core
    ELSE [i \in 1..total |->
            IF i <= Len(core) THEN core[i]
            ELSE unit[((i - Len(core) - 1) % Len(unit)) + 1]]

ScorerAnswers == { PadTo(c, u, t) : c \in Cores, u \in Units, t \in Totals }

ScorerIds == { 1, 2, 12 }

(***************************************************************************)
(* Configuration and inputs of batch mode (src/mumbai_llm_test.js:13-21).  *)
(***************************************************************************)
StrLlama3 == <<"l","l","a","m","a","3">>
StrMistral == <<"m","i","s","t","r","a","l">>
StrPhi3 == <<"p","h","i","3">>
StrGemma == <<"g","e","m","m","a",":","7","b">>
StrNeuralChat == <<"n","e","u","r","a","l","-","c","h","a","t">>

AllModels == <<StrLlama3, StrMistral, StrPhi3, StrGemma, StrNeuralChat>>

\* the first NumModels entries of the MODELS array
MODELS == SubSeq(AllModels, 1, NumModels)

\* names the service may report as installed
StrLlama3Latest == StrLlama3 \o <<":","l","a","t","e","s","t">>
StrMistral7b == StrMistral \o <<":","7","b">>
StrPhi == <<"p","h","i">>
StrLlama == <<"l","l","a","m","a">>
StrPhi3Mini == StrPhi3 \o <<":","m","i","n","i">>

InstalledChoices ==
    { {},
      {StrLlama3Latest, StrPhi},
      {StrLlama, StrMistral7b},
      {StrLlama3Latest, StrMistral7b, StrPhi3Mini} }

QuestionIds == <<1, 12, 2, 5, 7>>

\* questions.json: NumQuestions records, ids unique
QUESTIONS ==
    [i \in 1..NumQuestions |->
        [id |-> QuestionIds[i], category |-> "general",
         english |-> <<"en", QuestionIds[i]>>,
         hindi |-> <<"hi", QuestionIds[i]>>]]

\* texts the chat service may generate for an English / a Hindi prompt
EnglishReplies == { StrSnack, StrApology }
HindiReplies == { PadTo(<<>>, <<"x"," ">>, 60) }

\* texts the chat service may generate in single-model mode
SingleReplies == { StrSnack, StrApology }

\* an entry left in results.json by an earlier run
PriorEntry == [id |-> 0, question |-> <<"en", 0>>, answer |-> StrSorry]

PriorContents ==
    UNION { [1..n -> {PriorEntry}] : n \in 0..MaxPrior }

\* a file that does not exist, and a file holding a JSON value
NoFile == [exists |-> FALSE, content |-> <<>>]
FileOf(data) == [exists |-> TRUE, content |-> data]

(***************************************************************************)
(* State.                                                                  *)
(***************************************************************************)
VARIABLES
    \* scorer harness
    scpc, scAnswer, scId, scScore,
    \* batch mode (runTests)
    bpc, installed, mi, qi, resEN, modelResults, totalScoreX2,
    files, fileWrites, finalReport, finalFile, listOutcome, chatted, errorLog,
    \* single-model mode (processQuestions)
    spc, startFile, resultsFile, existingResults, sIndex, failLog, exitCode,
    asked, slept, pacing, connectionFailed

scorerVars == <<scpc, scAnswer, scId, scScore>>
batchVars ==
    <<bpc, installed, mi, qi, resEN, modelResults, totalScoreX2,
      files, fileWrites, finalReport, finalFile, listOutcome, chatted,
      errorLog>>
singleVars ==
    <<spc, startFile, resultsFile, existingResults, sIndex, failLog, exitCode,
      asked, slept, pacing, connectionFailed>>
vars == <<scorerVars, batchVars, singleVars>>

(* Meaning of the batch variables:                                         *)
(*   mi, qi        index into MODELS / QUESTIONS of the running loops      *)
(*   resEN         the English response held while the Hindi call runs     *)
(*   totalScoreX2  twice totalScore (totalScore moves in halves)           *)
(*   files[m]      <MODELS[m]>_results.json; fileWrites[m] counts the      *)
(*                 completed writes of it                                  *)
(*   finalReport   finalReport.models, keyed by index into MODELS          *)
(*   finalFile     final_report.json                                       *)
(*   listOutcome   what ollama.list() did when MODELS[m] was checked       *)
(*   chatted       the models ollama.chat was called with                  *)
(*   errorLog      the console.error lines "Q<id> failed", as <<m, id>>    *)
(* Meaning of the single-model variables:                                  *)
(*   startFile     results.json as the run found it                        *)
(*   failLog       the "Failed on question <n>" lines, as <<n, cause>>     *)
(*   exitCode      -1 while running, then the process exit code            *)
(*   asked         the question numbers sent to chat                       *)
(*   slept         a DELAY_BETWEEN_QUESTIONS sleep ran since the last      *)
(*                 question was sent                                       *)
(*   pacing[n]     the value of slept when question n was sent             *)
(*   connectionFailed  the line "Ollama connection failed" was printed     *)

ScorerIdle ==
    /\ scpc = "idle"
    /\ scAnswer = <<>>
    /\ scId = 0
    /\ scScore = 0

BatchFresh ==
    /\ installed \in InstalledChoices
    /\ mi = 1
    /\ qi = 0
    /\ resEN = <<>>
    /\ modelResults = <<>>
    /\ totalScoreX2 = 0
    /\ files = [m \in 1..NumModels |-> NoFile]
    /\ fileWrites = [m \in 1..NumModels |-> 0]
    /\ finalReport = <<>>
    /\ finalFile = NoFile
    /\ listOutcome = [m \in 1..NumModels |-> "pending"]
    /\ chatted = {}
    /\ errorLog = {}

BatchIdle ==
    /\ bpc = "idle"
    /\ BatchFresh
    /\ installed = {}

SingleFresh ==
    /\ startFile \in {NoFile} \cup { FileOf(c) : c \in PriorContents }
    /\ resultsFile = startFile
    /\ existingResults = <<>>
    /\ sIndex = 0
    /\ failLog = {}
    /\ exitCode = -1
    /\ asked = {}
    /\ slept = FALSE
    /\ pacing = <<>>
    /\ connectionFailed = FALSE

SingleIdle ==
    /\ spc = "idle"
    /\ SingleFresh
    /\ startFile = NoFile

\* scoreAnswer is about to be applied to one answer and one question id
InitScorer ==
    /\ scpc = "ready"
    /\ scAnswer \in ScorerAnswers
    /\ scId \in ScorerIds
    /\ scScore = 0
    /\ BatchIdle
    /\ SingleIdle

\* runTests is about to start (src/mumbai_llm_test.js:48-51)
InitBatch ==
    /\ bpc = "check"
    /\ BatchFresh
    /\ ScorerIdle
    /\ SingleIdle

\* processQuestions is about to start; results.json is absent or holds the
\* entries of earlier runs
InitSingle ==
    /\ spc = "init"
    /\ SingleFresh
    /\ ScorerIdle
    /\ BatchIdle

Init == InitScorer \/ InitBatch \/ InitSingle

(***************************************************************************)
(* Scorer harness: one application of scoreAnswer.                         *)
(***************************************************************************)
ApplyScore ==
    /\ scpc = "ready"
    /\ scScore' = scoreAnswer(scAnswer, scId)
    /\ scpc' = "done"
    /\ UNCHANGED <<scAnswer, scId, batchVars, singleVars>>

(***************************************************************************)
(* Batch mode: runTests (src/mumbai_llm_test.js:47-138).                   *)
(***************************************************************************)
\* isModelAvailable, the catch returning true
isModelAvailableLenient(model, listOk) ==
    IF listOk THEN \E m \in installed : startsWith(m, model) ELSE TRUE

\* isModelAvailable (37-44); listOk: ollama.list() did not throw
isModelAvailable(model, listOk) ==
    IF listOk THEN \E m \in installed : startsWith(m, model) ELSE FALSE

\* Number.prototype.toFixed(1) of numX2 / (2 * den), in tenths: the nearest
\* tenth, the larger one on a tie (numX2 >= 0, den > 0)
toFixed1(numX2, den) == (10 * numX2 + den) \div (2 * den)

\* a summary whose average divides by the number of answered questions
ModelSummaryOfAnswered(total2) ==
    LET ok == Cardinality({ i \in 1..Len(modelResults) :
                              "error" \notin DOMAIN modelResults[i] })
    IN  [avg_score |-> IF ok = 0 THEN 0 ELSE toFixed1(total2, ok),
         total_questions |-> Len(QUESTIONS),
         details_file |-> mi]

\* the summary stored in finalReport.models[model] (117-121)
ModelSummary(total2) ==
    [avg_score |-> toFixed1(total2, Len(QUESTIONS)),
     total_questions |-> Len(QUESTIONS),
     details_file |-> mi]

\* one AnswerRecord (86-99), without its wall-clock time
AnswerRecord(question, answer, id) ==
    [question |-> question, answer |-> answer, chars |-> Len(answer),
     score |-> scoreAnswer(answer, id)]

\* control after the question loop body: next question, or leave the loop
AfterQuestion ==
    IF qi < Len(QUESTIONS)
    THEN qi' = qi + 1 /\ bpc' = "en"
    ELSE qi' = qi /\ bpc' = "write"

\* control after a model: next model, or leave the loop
AfterModel ==
    IF mi < Len(MODELS)
    THEN mi' = mi + 1 /\ bpc' = "check"
    ELSE mi' = mi /\ bpc' = "final"

\* 56-59: the availability check says no; the model is skipped
ModelUnavailable ==
    /\ bpc = "check"
    /\ \E listOk \in BOOLEAN :
        /\ ~isModelAvailable(MODELS[mi], listOk)
        /\ listOutcome' =
              [listOutcome EXCEPT ![mi] = IF listOk THEN "ok" ELSE "failed"]
    /\ AfterModel
    /\ UNCHANGED <<installed, qi, resEN, modelResults, totalScoreX2, files,
                   fileWrites, finalReport, finalFile, chatted, errorLog,
                   scorerVars, singleVars>>

\* 56-65: the availability check says yes; the question loop starts
ModelAvailable ==
    /\ bpc = "check"
    /\ \E listOk \in BOOLEAN :
        /\ isModelAvailable(MODELS[mi], listOk)
        /\ listOutcome' =
              [listOutcome EXCEPT ![mi] = IF listOk THEN "ok" ELSE "failed"]
    /\ modelResults' = <<>>
    /\ totalScoreX2' = 0
    /\ IF Len(QUESTIONS) = 0
       THEN qi' = 0 /\ bpc' = "write"
       ELSE qi' = 1 /\ bpc' = "en"
    /\ UNCHANGED <<installed, mi, resEN, files, fileWrites, finalReport,
                   finalFile, chatted, errorLog, scorerVars, singleVars>>

\* 71-75: the English call returns
ChatEnglishOk ==
    /\ bpc = "en"
    /\ \E a \in EnglishReplies : resEN' = a
    /\ chatted' = chatted \cup {mi}
    /\ bpc' = "hi"
    /\ UNCHANGED <<installed, mi, qi, modelResults, totalScoreX2, files,
                   fileWrites, finalReport, finalFile, listOutcome, errorLog,
                   scorerVars, singleVars>>

\* the catch of a failed question, recording nothing
QuestionFailedSilently ==
    /\ chatted' = chatted \cup {mi}
    /\ modelResults' = modelResults
    /\ errorLog' = errorLog \cup {<<mi, QUESTIONS[qi].id>>}
    /\ resEN' = <<>>
    /\ AfterQuestion
    /\ UNCHANGED <<installed, mi, totalScoreX2, files, fileWrites,
                   finalReport, finalFile, listOutcome, scorerVars,
                   singleVars>>

\* 103-109: a call of the question threw
QuestionFailed ==
    /\ chatted' = chatted \cup {mi}
    /\ modelResults' =
          Append(modelResults, [id |-> QUESTIONS[qi].id, error |-> "message"])
    /\ errorLog' = errorLog \cup {<<mi, QUESTIONS[qi].id>>}
    /\ resEN' = <<>>
    /\ AfterQuestion
    /\ UNCHANGED <<installed, mi, totalScoreX2, files, fileWrites,
                   finalReport, finalFile, listOutcome, scorerVars,
                   singleVars>>

\* 71, 103-109: the English call throws
ChatEnglishFail ==
    /\ bpc = "en"
    /\ QuestionFailed

\* 79-102, 108-109: the Hindi call returns; the entry is stored
ChatHindiOk ==
    /\ bpc = "hi"
    /\ \E a \in HindiReplies :
        LET q == QUESTIONS[qi]
            en == AnswerRecord(q.english, resEN, q.id)
            hi == AnswerRecord(q.hindi, a, q.id)
        IN  /\ modelResults' =
                  Append(modelResults,
                         [id |-> q.id, category |-> q.category,
                          english |-> en, hindi |-> hi])
            /\ totalScoreX2' = totalScoreX2 + (en.score + hi.score)
    /\ resEN' = <<>>
    /\ AfterQuestion
    /\ UNCHANGED <<installed, mi, files, fileWrites, finalReport, finalFile,
                   listOutcome, chatted, errorLog, scorerVars, singleVars>>

\* 79, 103-109: the Hindi call throws
ChatHindiFail ==
    /\ bpc = "hi"
    /\ QuestionFailed

\* 112-121: the result file is written, the summary stored
WriteResults ==
    /\ bpc = "write"
    /\ files' = [files EXCEPT ![mi] = FileOf(modelResults)]
    /\ fileWrites' = [fileWrites EXCEPT ![mi] = @ + 1]
    /\ finalReport' =
          [m \in (DOMAIN finalReport) \cup {mi} |->
              IF m = mi THEN ModelSummary(totalScoreX2) ELSE finalReport[m]]
    /\ AfterModel
    /\ UNCHANGED <<installed, qi, resEN, modelResults, totalScoreX2,
                   finalFile, listOutcome, chatted, errorLog, scorerVars,
                   singleVars>>

\* 115, 136-138: writing the result file throws; runTests rejects and the
\* catch of the call site logs the error
WriteResultsFail ==
    /\ bpc = "write"
    /\ bpc' = "abortedResults"
    /\ UNCHANGED <<installed, mi, qi, resEN, modelResults, totalScoreX2,
                   files, fileWrites, finalReport, finalFile, listOutcome,
                   chatted, errorLog, scorerVars, singleVars>>

\* 124-133: final_report.json is written
WriteFinalReport ==
    /\ bpc = "final"
    /\ finalFile' = FileOf(finalReport)
    /\ bpc' = "done"
    /\ UNCHANGED <<installed, mi, qi, resEN, modelResults, totalScoreX2,
                   files, fileWrites, finalReport, listOutcome, chatted,
                   errorLog, scorerVars, singleVars>>

\* 125, 136-138: writing final_report.json throws
WriteFinalReportFail ==
    /\ bpc = "final"
    /\ bpc' = "abortedFinal"
    /\ UNCHANGED <<installed, mi, qi, resEN, modelResults, totalScoreX2,
                   files, fileWrites, finalReport, finalFile, listOutcome,
                   chatted, errorLog, scorerVars, singleVars>>

(***************************************************************************)
(* Single-model mode: processQuestions (src/askOllama.js:11-71).           *)
(***************************************************************************)
\* 13: fs.access succeeds, results.json is left as it is
InitResultsExists ==
    /\ spc = "init"
    /\ resultsFile.exists
    /\ spc' = "ping"
    /\ UNCHANGED <<startFile, resultsFile, existingResults, sIndex, failLog,
                   exitCode, asked, slept, pacing, connectionFailed,
                   scorerVars, batchVars>>

\* 14-15: results.json is absent and is created holding []
InitResultsCreate ==
    /\ spc = "init"
    /\ ~resultsFile.exists
    /\ resultsFile' = FileOf(<<>>)
    /\ spc' = "ping"
    /\ UNCHANGED <<startFile, existingResults, sIndex, failLog, exitCode,
                   asked, slept, pacing, connectionFailed,
                   scorerVars, batchVars>>

\* 15, 71: creating results.json throws; processQuestions rejects, the
\* catch of the call site prints the error and the process ends normally
InitResultsCreateFail ==
    /\ spc = "init"
    /\ ~resultsFile.exists
    /\ spc' = "rejected"
    /\ exitCode' = 0
    /\ UNCHANGED <<startFile, resultsFile, existingResults, sIndex, failLog,
                   asked, slept, pacing, connectionFailed,
                   scorerVars, batchVars>>

\* 20-27, 39-40: the ping is answered; questions.json and results.json are
\* read
CheckOllamaOk ==
    /\ spc = "ping"
    /\ existingResults' = resultsFile.content
    /\ IF NumQuestions = 0
       THEN sIndex' = 0 /\ spc' = "done" /\ exitCode' = 0
       ELSE sIndex' = 1 /\ spc' = "ask" /\ exitCode' = exitCode
    /\ UNCHANGED <<startFile, resultsFile, failLog, asked, slept, pacing,
                   connectionFailed,
                   scorerVars, batchVars>>

\* checkOllama returning after a failed ping instead of exiting
CheckOllamaFailIgnored ==
    /\ spc = "ping"
    /\ connectionFailed' = TRUE
    /\ existingResults' = resultsFile.content
    /\ sIndex' = 1
    /\ spc' = "ask"
    /\ UNCHANGED <<startFile, resultsFile, failLog, exitCode, asked, slept,
                   pacing, scorerVars,
                   batchVars>>

\* 28-31: the ping throws; process.exit(1)
CheckOllamaFail ==
    /\ spc = "ping"
    /\ connectionFailed' = TRUE
    /\ spc' = "exit1"
    /\ exitCode' = 1
    /\ UNCHANGED <<startFile, resultsFile, existingResults, sIndex, failLog,
                   asked, slept, pacing, scorerVars,
                   batchVars>>

\* control after a loop iteration: next question, or the loop and the
\* process end
NextQuestion ==
    IF sIndex < NumQuestions
    THEN sIndex' = sIndex + 1 /\ spc' = "ask" /\ exitCode' = exitCode
    ELSE sIndex' = sIndex /\ spc' = "done" /\ exitCode' = 0

\* 46-61: the chat call returns; the result is pushed
AskOk ==
    /\ spc = "ask"
    /\ \E a \in SingleReplies :
        existingResults' =
            Append(existingResults,
                   [id |-> QUESTIONS[sIndex].id,
                    question |-> QUESTIONS[sIndex].english,
                    answer |-> a])
    /\ asked' = asked \cup {sIndex}
    /\ pacing' = Append(pacing, slept)
    /\ slept' = FALSE
    /\ spc' = "write"
    /\ UNCHANGED <<startFile, resultsFile, sIndex, failLog, exitCode,
                   connectionFailed,
                   scorerVars, batchVars>>

\* 46, 65-67: the chat call throws; the failure is logged
AskFail ==
    /\ spc = "ask"
    /\ asked' = asked \cup {sIndex}
    /\ pacing' = Append(pacing, slept)
    /\ slept' = FALSE
    /\ failLog' = failLog \cup {<<sIndex, "chat">>}
    /\ NextQuestion
    /\ UNCHANGED <<startFile, resultsFile, existingResults,
                   connectionFailed, scorerVars, batchVars>>

\* a write of results.json that stores only the newest result
WriteNewestOnly ==
    /\ spc = "write"
    /\ resultsFile' = FileOf(<<existingResults[Len(existingResults)]>>)
    /\ spc' = "delay"
    /\ UNCHANGED <<startFile, existingResults, sIndex, failLog, exitCode,
                   asked, slept, pacing, connectionFailed,
                   scorerVars, batchVars>>

\* 62: results.json is overwritten with the whole list
WriteOk ==
    /\ spc = "write"
    /\ resultsFile' = FileOf(existingResults)
    /\ spc' = "delay"
    /\ UNCHANGED <<startFile, existingResults, sIndex, failLog, exitCode,
                   asked, slept, pacing, connectionFailed,
                   scorerVars, batchVars>>

\* a failed write of results.json that ends the run
WriteFailFatal ==
    /\ spc = "write"
    /\ failLog' = failLog \cup {<<sIndex, "write">>}
    /\ spc' = "rejected"
    /\ exitCode' = 0
    /\ UNCHANGED <<startFile, resultsFile, existingResults, sIndex, asked,
                   slept, pacing, connectionFailed,
                   scorerVars, batchVars>>

\* 62, 65-67: the write throws inside the try; the failure is logged and
\* the loop goes on
WriteFail ==
    /\ spc = "write"
    /\ failLog' = failLog \cup {<<sIndex, "write">>}
    /\ NextQuestion
    /\ UNCHANGED <<startFile, resultsFile, existingResults, asked, slept,
                   pacing, connectionFailed,
                   scorerVars, batchVars>>

\* 64: the sleep of DELAY_BETWEEN_QUESTIONS, last statement of the try
Delay ==
    /\ spc = "delay"
    /\ slept' = TRUE
    /\ NextQuestion
    /\ UNCHANGED <<startFile, resultsFile, existingResults, failLog, asked,
                   pacing, connectionFailed,
                   scorerVars, batchVars>>

(***************************************************************************)
(* Specification.                                                          *)
(***************************************************************************)
Next ==
    \/ ApplyScore
    \/ ModelUnavailable
    \/ ModelAvailable
    \/ ChatEnglishOk
    \/ ChatEnglishFail
    \/ ChatHindiOk
    \/ ChatHindiFail
    \/ WriteResults
    \/ WriteResultsFail
    \/ WriteFinalReport
    \/ WriteFinalReportFail
    \/ InitResultsExists
    \/ InitResultsCreate
    \/ InitResultsCreateFail
    \/ CheckOllamaOk
    \/ CheckOllamaFail
    \/ AskOk
    \/ AskFail
    \/ WriteOk
    \/ WriteFail
    \/ Delay

Spec == Init /\ [][Next]_vars

(***************************************************************************)
(* Properties.                                                             *)
(***************************************************************************)
ModelIdx == 1..NumModels
QuestionIdx == 1..NumQuestions

IsErrorEntry(e) == DOMAIN e = {"id", "error"}
IsFullEntry(e) == DOMAIN e = {"id", "category", "english", "hindi"}

\* C1: in batch mode, the list written to a model's result file has exactly
\* one entry per question, in question order and carrying that question's
\* id; the entry is an {id, error} entry exactly when a call of that question
\* threw and a full {id, category, english, hindi} entry otherwise; and the
\* model's summary reports total_questions = number of questions, whatever
\* the calls did.
C1_OneEntryPerQuestion ==
    \A m \in ModelIdx :
        files[m].exists =>
            LET list == files[m].content
            IN  /\ Len(list) = NumQuestions
                /\ \A i \in QuestionIdx :
                    /\ list[i].id = QuestionIds[i]
                    /\ IF <<m, QuestionIds[i]>> \in errorLog
                       THEN IsErrorEntry(list[i])
                       ELSE IsFullEntry(list[i])
                /\ m \in DOMAIN finalReport
                /\ finalReport[m].total_questions = NumQuestions
                /\ finalFile.exists =>
                      /\ m \in DOMAIN finalFile.content
                      /\ finalFile.content[m].total_questions = NumQuestions

\* a finished batch run whose first model has a failed and an answered
\* question
C1_Witness ==
    /\ bpc = "done"
    /\ files[1].exists
    /\ \E i, j \in QuestionIdx :
        /\ IsErrorEntry(files[1].content[i])
        /\ IsFullEntry(files[1].content[j])

\* no installed name starts with MODELS[m], or the list query failed
Unavailable(m) ==
    \/ listOutcome[m] = "failed"
    \/ /\ listOutcome[m] = "ok"
       /\ \A n \in installed :
            \/ Len(n) < Len(MODELS[m])
            \/ \E k \in 1..Len(MODELS[m]) : n[k] # MODELS[m][k]

Available(m) == listOutcome[m] = "ok" /\ ~Unavailable(m)

\* C2: in batch mode a model whose availability check is false (no installed
\* name starts with it, or the list query failed) is skipped: no chat call
\* is made for it, no result file is written for it and it is absent from
\* the models mapping of the final report, while the other models are still
\* processed.
C2_UnavailableSkipped ==
    /\ \A m \in ModelIdx :
        Unavailable(m) =>
            /\ m \notin chatted
            /\ ~files[m].exists
            /\ fileWrites[m] = 0
            /\ m \notin DOMAIN finalReport
            /\ finalFile.exists => m \notin DOMAIN finalFile.content
    /\ bpc = "done" =>
        \A m \in ModelIdx :
            Available(m) =>
                /\ files[m].exists
                /\ m \in DOMAIN finalFile.content

\* a finished batch run that skipped its first model, the installed name
\* "llama" being no extension of "llama3", and evaluated a later model
C2_Witness ==
    /\ bpc = "done"
    /\ listOutcome[1] = "ok"
    /\ StrLlama \in installed
    /\ Unavailable(1)
    /\ \E m \in ModelIdx : m > 1 /\ Available(m) /\ m \in chatted

\* C4: scoreAnswer returns an integer in [0,100] for every answer and id, so
\* every score stored in an AnswerRecord of a batch result entry lies in
\* [0,100].
C4_ScoreInRange ==
    /\ scpc = "done" => scScore \in 0..100
    /\ \A i \in 1..Len(modelResults) :
        IsFullEntry(modelResults[i]) =>
            /\ modelResults[i].english.score \in 0..100
            /\ modelResults[i].hindi.score \in 0..100
    /\ \A m \in ModelIdx : \A i \in 1..Len(files[m].content) :
        IsFullEntry(files[m].content[i]) =>
            /\ files[m].content[i].english.score \in 0..100
            /\ files[m].content[i].hindi.score \in 0..100

\* the scorer has scored a short apology: the lowest score it gives
C4_Witness ==
    /\ scpc = "done"
    /\ Len(scAnswer) < 50
    /\ scScore = 15

(* The algorithm of the specification, written on positions.              *)
Occurs(s, pat) ==
    \E i \in 1..Len(s) :
        /\ i + Len(pat) - 1 <= Len(s)
        /\ \A k \in 1..Len(pat) : s[i + k - 1] = pat[k]

IsWhitespace(c) == c \in {" ", "\t", "\n", "\r"}

\* number of maximal runs of characters that are not whitespace
WordCount(s) ==
    Cardinality({ i \in 1..Len(s) :
                    /\ ~IsWhitespace(s[i])
                    /\ (i = 1 \/ IsWhitespace(s[i - 1])) })

\* number of space characters
SpaceCount(s) == Cardinality({ i \in 1..Len(s) : s[i] = " " })

Bonus(cond, amount) == IF cond THEN amount ELSE 0

Clamp(x) == IF x < 0 THEN 0 ELSE IF x > 100 THEN 100 ELSE x

\* steps 1-8 of the algorithm, with the outcome of step 5's test given
Reference(answer, questionId, manyWords) ==
    Clamp(50
          - Bonus(Len(answer) < 50, 20)
          + Bonus(Len(answer) > 500, 10)
          - Bonus(Occurs(answer, StrSorry) \/ Occurs(answer, StrNotSure), 15)
          + Bonus(manyWords, 5)
          + Bonus(questionId = 1
                  /\ Occurs(toLowerCase(answer), StrVadaPav), 20)
          + Bonus(questionId = 12
                  /\ Occurs(toLowerCase(answer), StrFinancialCapital), 15))

\* C5 as stated: scoreAnswer equals the reference algorithm whose step 5
\* adds 5 when the whitespace-delimited word count exceeds 100; score("", 1)
\* is 30 and the score of 600 'x' with id 2 is 60.
C5_Original ==
    scpc = "done" =>
        /\ scScore = Reference(scAnswer, scId, WordCount(scAnswer) > 100)
        /\ (scAnswer = <<>> /\ scId = 1) => scScore = 30
        /\ (scAnswer = [i \in 1..600 |-> "x"] /\ scId = 2) => scScore = 60

\* C5: scoreAnswer equals the reference algorithm whose step 5 adds 5 when
\* the answer holds at least 100 space characters (that is, when splitting
\* it at every single space gives more than 100 pieces, empty ones counted;
\* tabs and newlines do not delimit); score("", 1) is 30 and the score of
\* 600 'x' with id 2 is 60.
C5_ScoreMatchesReference ==
    scpc = "done" =>
        /\ scScore = Reference(scAnswer, scId, SpaceCount(scAnswer) >= 100)
        /\ (scAnswer = <<>> /\ scId = 1) => scScore = 30
        /\ (scAnswer = [i \in 1..600 |-> "x"] /\ scId = 2) => scScore = 60

\* the scorer has scored an answer of more than 100 words separated by
\* tabs, which holds fewer than 100 spaces: no bonus for its words
C5_Witness ==
    /\ scpc = "done"
    /\ WordCount(scAnswer) > 100
    /\ SpaceCount(scAnswer) < 100
    /\ Len(scAnswer) = 500
    /\ scScore = 50

\* the single-model run is over
SingleOver == spc \in {"done", "exit1", "rejected"}

\* every question was sent and every one of these calls threw
EveryQuestionCallFailed ==
    \A n \in QuestionIdx : n \in asked /\ <<n, "chat">> \in failLog

\* C3 as stated: with a chat adapter that fails on every call, the
\* single-model run ends with zero entries in results.json, one logged
\* failure per question and exit code 0.  (A run whose first call, the
\* startup ping, has failed is a run of such an adapter.)
C3_Original ==
    (SingleOver /\ connectionFailed) =>
        /\ resultsFile.content = <<>>
        /\ Cardinality(failLog) = NumQuestions
        /\ exitCode = 0

\* C3: with a chat adapter that fails on every call the startup ping fails:
\* the process exits with code 1 before any question is sent, no question
\* failure is logged and results.json keeps what it held ([] if it was just
\* created).  When the ping is answered and every question call fails, the
\* run ends with no entry added to results.json, one logged failure per
\* question and exit code 0.
C3_AllCallsFail ==
    /\ connectionFailed =>
        /\ spc = "exit1"
        /\ exitCode = 1
        /\ asked = {}
        /\ failLog = {}
        /\ resultsFile.exists
        /\ resultsFile.content = startFile.content
    /\ (spc = "done" /\ EveryQuestionCallFailed) =>
        /\ ~connectionFailed
        /\ resultsFile.content = startFile.content
        /\ Cardinality(failLog) = NumQuestions
        /\ exitCode = 0

\* a run that found entries of an earlier run in results.json and whose
\* startup ping failed
C3_Witness ==
    /\ connectionFailed
    /\ spc = "exit1"
    /\ startFile.exists
    /\ Len(resultsFile.content) > 0

\* the batch run is over
BatchOver == bpc \in {"done", "abortedResults", "abortedFinal"}

\* C6: in batch mode a failed write of a model's result file is logged and
\* the run goes on: when the run is over every model has been checked (and
\* evaluated if available), and final_report.json has been written unless
\* its own write failed.
C6_WriteFailureContinues ==
    BatchOver =>
        /\ \A m \in ModelIdx : listOutcome[m] # "pending"
        /\ bpc # "abortedFinal" => finalFile.exists

\* C7 as stated: in single-model mode a failed write of results.json is
\* fatal: no question after the one whose write failed is sent to chat.
C7_Original ==
    \A n \in QuestionIdx :
        <<n, "write">> \in failLog => \A k \in asked : k <= n

\* C7: in single-model mode a failed write of results.json while a
\* question's result is persisted is caught by the handler of that question:
\* it is logged as that question's failure, its result stays in the
\* in-memory list (which the next successful write stores whole), the delay
\* is skipped, and the run goes on with the next question (ending normally,
\* exit code 0, if it was the last); a run that reaches its end has sent
\* every question.
C7_WriteFailureNotFatal ==
    /\ \A n \in QuestionIdx :
        <<n, "write">> \in failLog =>
            /\ spc \in {"ask", "write", "delay", "done"}
            /\ n < NumQuestions => sIndex > n
            /\ n = NumQuestions => (spc = "done" /\ exitCode = 0)
            /\ \E k \in 1..Len(existingResults) :
                existingResults[k].id = QuestionIds[n]
            /\ n + 1 <= Len(pacing) => ~pacing[n + 1]
    /\ spc = "delay" => resultsFile.content = existingResults
    /\ spc = "done" => asked = QuestionIdx

\* the write of the first question's result failed and the second question
\* has been sent
C7_Witness ==
    /\ <<1, "write">> \in failLog
    /\ 2 \in asked

\* C8: in single-model mode every question after the first is sent only
\* after the 2000 ms delay has run since the previous question was sent,
\* whether that one succeeded or failed.
C8_DelayRegardlessOfOutcome ==
    \A n \in 2..Len(pacing) : pacing[n]

\* twice the sum, over the full entries among the first n of a list, of
\* (english.score + hindi.score) / 2; an error entry adds nothing
RECURSIVE ScoreSumX2(_, _)
ScoreSumX2(list, n) ==
    IF n = 0 THEN 0
    ELSE ScoreSumX2(list, n - 1)
         + (IF IsFullEntry(list[n])
            THEN list[n].english.score + list[n].hindi.score
            ELSE 0)

FailedCount(list) ==
    Cardinality({ i \in 1..Len(list) : IsErrorEntry(list[i]) })

\* C9 as stated: avg_score is the sum, over the questions whose two calls
\* both succeeded, of (scoreEN+scoreHI)/2, divided by the number N of
\* questions, and is at most 100*(N-k)/N when k questions failed.
\* (avg_score is held in tenths, ScoreSumX2 is twice the sum.)
C9_Original ==
    \A m \in DOMAIN finalReport :
        LET list == files[m].content
            n == NumQuestions
            avg == finalReport[m].avg_score
        IN  /\ 2 * n * avg = 10 * ScoreSumX2(list, Len(list))
            /\ n * avg <= 1000 * (n - FailedCount(list))

\* C9: avg_score is the one-decimal rendering (toFixed(1)) of that sum
\* divided by N, so it lies within 0.05 of the quotient; a failed question,
\* also one whose English call succeeded and whose Hindi call threw, adds 0
\* to the sum and still counts in N; the quotient itself is at most
\* 100*(N-k)/N when k questions failed.
C9_AverageOverAllQuestions ==
    \A m \in DOMAIN finalReport :
        LET list == files[m].content
            n == NumQuestions
            avg == finalReport[m].avg_score
            sumX2 == ScoreSumX2(list, Len(list))
            k == FailedCount(list)
        IN  /\ 2 * n * avg - 10 * sumX2 <= n
            /\ 10 * sumX2 - 2 * n * avg < n
            /\ sumX2 <= 200 * (n - k)
            /\ k = Cardinality({ i \in QuestionIdx :
                                   <<m, QuestionIds[i]>> \in errorLog })
            /\ finalReport[m].total_questions = n

\* a model's summary is stored after one of its questions failed and
\* another was answered with scores 15 and 50: the sum 32.5 is not the
\* N-fold of a number with one decimal
C9_Witness ==
    \E m \in DOMAIN finalReport :
        /\ FailedCount(files[m].content) = 1
        /\ ScoreSumX2(files[m].content, NumQuestions) = 65

\* ids of the entries of a list, in order
Ids(list) == [i \in 1..Len(list) |-> list[i].id]

\* the question numbers, ascending, whose chat call returned
RECURSIVE AnsweredIds(_)
AnsweredIds(n) ==
    IF n = 0 THEN <<>>
    ELSE AnsweredIds(n - 1)
         \o (IF n \in asked /\ <<n, "chat">> \notin failLog
             THEN <<QuestionIds[n]>> ELSE <<>>)

\* batch mode: no write of a model's result file while its question loop
\* runs, at most one ever, exactly one once the model is done
BatchWriteTiming ==
    /\ \A m \in ModelIdx :
        /\ fileWrites[m] <= 1
        /\ files[m].exists <=> fileWrites[m] = 1
        /\ files[m].exists => Len(files[m].content) = NumQuestions
        /\ m \in DOMAIN finalReport => fileWrites[m] = 1
    /\ bpc \in {"en", "hi", "write"} =>
        /\ fileWrites[mi] = 0
        /\ ~files[mi].exists

\* single-model mode: right after a write the file holds the whole
\* in-memory list, which is what results.json held at the start followed by
\* the results of the answered questions in question order
SingleWriteContent ==
    /\ spc = "delay" => resultsFile.content = existingResults
    /\ spc \in {"ask", "write", "delay", "done"} =>
        /\ SubSeq(existingResults, 1, Len(startFile.content))
              = startFile.content
        /\ Ids(existingResults)
              = Ids(startFile.content) \o AnsweredIds(NumQuestions)

\* a step that logs a question's failure leaves results.json as it was
FailureKeepsFile == (failLog' # failLog) => (resultsFile' = resultsFile)

\* C10: in batch mode a model's result file is written once, after all its
\* questions were processed and never while its question loop runs; in
\* single-model mode results.json is rewritten in full after every answered
\* question, so that after each write it equals the whole in-memory list
\* (the prior contents followed by the results so far, in question order),
\* and a failed question leaves the file unchanged.
C10_WriteTiming ==
    /\ []BatchWriteTiming
    /\ []SingleWriteContent
    /\ [][FailureKeepsFile]_vars

\* results.json held an earlier entry, the first question failed and the
\* second was answered and written
C10_Witness ==
    /\ spc = "delay"
    /\ Len(startFile.content) > 0
    /\ failLog # {}
    /\ Len(resultsFile.content) = Len(startFile.content) + 1

====
